---- MODULE Spec2Model ----
(***************************************************************************)
(* Model of the be_tween combinator engine (src/src/tween.rs): the Tween   *)
(* tree with its advance, skip and reset operations.  Durations are exact  *)
(* natural numbers of one time unit; f32 values are exact fractions with a *)
(* separate NaN.                                                           *)
(***************************************************************************)
EXTENDS Integers, Sequences, FiniteSets, TLC

\* ---------------------------------------------------------------- bounds
MaxDur == 2      \* largest leaf duration that is enumerated
MaxLen == 2      \* longest child list of a generated Sequence / Parallel
MaxTimes == 2    \* largest k of a generated RepeatTimes::N(k)
MaxDt == 3       \* largest input duration of one call
MaxCalls == 3    \* number of calls made on one tree
MaxMult == 6     \* largest f32 applier of the tween_sequence scenario

\* Iterations after which a Repeat loop is reported as not returning.  One
\* call never needs more: a finite policy ends after MaxTimes completions and
\* an infinite one strictly shrinks its remaining duration on every pass.
Fuel == MaxTimes + MaxDt + 2

\* ------------------------------------------------------------ f32 values
RECURSIVE Gcd(_, _)
Gcd(a, b) == IF b = 0 THEN a ELSE Gcd(b, a % b)

NaN == [nan |-> TRUE, num |-> 0, den |-> 1]

\* the f32 quotient n / d (0/0 is NaN; elapsed never exceeds a zero duration)
Frac(n, d) ==
    IF d = 0 THEN NaN
    ELSE LET g == Gcd(n, d) IN [nan |-> FALSE, num |-> n \div g, den |-> d \div g]

Scale(k, v) == IF v.nan THEN NaN ELSE Frac(k * v.num, v.den)

\* ----------------------------------------------------------- data types
Running == [kind |-> "Running", surplus |-> 0]
Done(surplus) == [kind |-> "Done", surplus |-> surplus]
\* outcome of a call whose Repeat loop does not return
Diverge == [kind |-> "Diverge", surplus |-> 0]

N(amount) == [inf |-> FALSE, n |-> amount]
Infinite == [inf |-> TRUE, n |-> 0]

\* Option<E>: the empty sequence is None, <<e>> is Some(e)
None == << >>
Some(e) == <<e>>

\* One record shape for all five variants; a field a variant does not have
\* keeps its zero value.  Repeat's boxed child is the single element of tweens.
Node(kind, duration, applier, times, tweens) ==
    [kind |-> kind, duration |-> duration, elapsed |-> 0, applier |-> applier,
     times |-> times, count |-> 0, index |-> 0, tweens |-> tweens,
     completed_event |-> None]

New(duration, applier) == Node("Once", duration, applier, N(0), << >>)
Pause(duration) == Node("Pause", duration, 0, N(0), << >>)
Repeat(times, tween) == Node("Repeat", 0, 0, times, <<tween>>)
Sequence(tweens) == Node("Sequence", 0, 0, N(0), tweens)
Parallel(tweens) == Node("Parallel", 0, 0, N(0), tweens)
WithCompleted(self, event) == [self EXCEPT !.completed_event = Some(event)]
NewWithEvent(duration, applier, event) == WithCompleted(New(duration, applier), event)

\* ------------------------------------------------- capabilities (traits)
\* The call context: the target the appliers write and the events the sink
\* received during the call; with them the trace of the call: the position
\* (path) of the node being advanced, the values handed to the appliers
\* (applied) and the calls of advance on the nodes in the order they returned
\* (log).
Send(cx, completed_event) ==
    IF completed_event = None THEN cx
    ELSE [cx EXCEPT !.sent = Append(@, completed_event[1])]

\* Lerp: the eased position is the position
Interpolate(position) == position

\* impl TweenApplier<f32> for f32: *target = *self * value * 2.0
\* variant: the applier does not double the value
ApplyNoDouble(cx, applier, value) ==
    [cx EXCEPT !.target = Scale(applier, value),
               !.applied = Append(@, [path |-> cx.path, applier |-> applier,
                                      value |-> value])]

Apply(cx, applier, value) ==
    [cx EXCEPT !.target = Scale(applier * 2, value),
               !.applied = Append(@, [path |-> cx.path, applier |-> applier,
                                      value |-> value])]

\* the context in which the child at position i is advanced
At(cx, i) == [cx EXCEPT !.path = Append(@, i)]

\* the context after the node tw at path returned res from advance(duration)
\* to its caller
Returned(cx, path, tw, duration, res) ==
    [cx EXCEPT !.path = IF path = << >> THEN path ELSE SubSeq(path, 1, Len(path) - 1),
               !.log = Append(@, [path |-> path, kind |-> tw.kind, dt |-> duration,
                                  res |-> res, elapsed |-> tw.elapsed,
                                  duration |-> tw.duration,
                                  completed_event |-> tw.completed_event])]

\* ------------------------------------------------ pieces shared by the
\* ------------------------------------------------ operations of one variant
RECURSIVE Advance(_, _, _)
RECURSIVE Skip(_, _)
RECURSIVE Reset(_)
RECURSIVE AdvanceRepeatLoop(_, _, _, _)
RECURSIVE AdvanceSequenceLoop(_, _, _)
RECURSIVE AdvanceParallelFold(_, _, _, _, _)
RECURSIVE SkipRepeatLoop(_, _, _)
RECURSIVE SkipSequenceLoop(_, _)
RECURSIVE SkipParallelFold(_, _, _, _)
RECURSIVE ResetPrefix(_, _, _)

\* variant: the comparison is strict
LeafCompleteStrict(elapsed, tween_duration) == elapsed > tween_duration

\* if elapsed >= tween_duration
LeafComplete(elapsed, tween_duration) == elapsed >= tween_duration

\* variant: one iteration too many
RepeatDoneOffByOne(times, count) == IF times.inf THEN FALSE ELSE count > times.n

\* variant: the amount is compared whatever the policy
RepeatDoneIgnoresPolicy(times, count) == count >= times.n

\* let done = match times { N(amount) => count >= amount, Infinite => false }
RepeatDone(times, count) == IF times.inf THEN FALSE ELSE count >= times.n

\* variant: the comparison is strict
ZeroProgressStrict(duration, surplus, times) == duration < surplus /\ times = Infinite

\* if duration <= surplus && *times == RepeatTimes::Infinite
ZeroProgress(duration, surplus, times) == duration <= surplus /\ times = Infinite

Min(a, b) == IF a <= b THEN a ELSE b

\* variant: the larger surplus is kept
ParallelStepMax(acc, delegate_result) ==
    IF delegate_result.kind = "Diverge" \/ acc.kind = "Diverge" THEN Diverge
    ELSE IF acc.kind = "Done" /\ delegate_result.kind = "Done"
         THEN Done(IF acc.surplus >= delegate_result.surplus THEN acc.surplus
                   ELSE delegate_result.surplus)
         ELSE Running

\* the closure of the Parallel fold
ParallelStep(acc, delegate_result) ==
    IF delegate_result.kind = "Diverge" \/ acc.kind = "Diverge" THEN Diverge
    ELSE IF acc.kind = "Done" /\ delegate_result.kind = "Done"
         THEN Done(Min(acc.surplus, delegate_result.surplus))
         ELSE Running

\* ----------------------------------------------------------------- advance
\* Every operator returns [tw: the node afterwards, cx: the context
\* afterwards, res: the TweenProgress].
\* variant: elapsed is not clamped to the duration
AdvanceOnceNoClamp(t, cx, duration) ==
    LET sum == t.elapsed + duration
        complete == LeafComplete(sum, t.duration)
        cx1 == IF complete THEN Send(cx, t.completed_event) ELSE cx
        v == Interpolate(Frac(sum, t.duration))
    IN [tw |-> [t EXCEPT !.elapsed = sum],
        cx |-> Apply(cx1, t.applier, v),
        res |-> IF complete THEN Done(sum - t.duration) ELSE Running]

\* variant: the completing call returns before the applier is called
AdvanceOnceNoApplyOnDone(t, cx, duration) ==
    LET sum == t.elapsed + duration
        complete == LeafComplete(sum, t.duration)
        elapsed == IF complete THEN t.duration ELSE sum
        v == Interpolate(Frac(elapsed, t.duration))
    IN [tw |-> [t EXCEPT !.elapsed = elapsed],
        cx |-> IF complete THEN Send(cx, t.completed_event)
               ELSE Apply(cx, t.applier, v),
        res |-> IF complete THEN Done(sum - t.duration) ELSE Running]

AdvanceOnce(t, cx, duration) ==
    LET sum == t.elapsed + duration
        complete == LeafComplete(sum, t.duration)
        elapsed == IF complete THEN t.duration ELSE sum
        cx1 == IF complete THEN Send(cx, t.completed_event) ELSE cx
        v == Interpolate(Frac(elapsed, t.duration))
    IN [tw |-> [t EXCEPT !.elapsed = elapsed],
        cx |-> Apply(cx1, t.applier, v),
        res |-> IF complete THEN Done(sum - t.duration) ELSE Running]

\* variant: the event is sent on every call
AdvancePauseAlwaysSends(t, cx, duration) ==
    LET sum == t.elapsed + duration
        complete == LeafComplete(sum, t.duration)
    IN [tw |-> [t EXCEPT !.elapsed = IF complete THEN t.duration ELSE sum],
        cx |-> Send(cx, t.completed_event),
        res |-> IF complete THEN Done(sum - t.duration) ELSE Running]

\* variant: elapsed is not clamped to the duration
AdvancePauseNoClamp(t, cx, duration) ==
    LET sum == t.elapsed + duration
        complete == LeafComplete(sum, t.duration)
    IN [tw |-> [t EXCEPT !.elapsed = sum],
        cx |-> IF complete THEN Send(cx, t.completed_event) ELSE cx,
        res |-> IF complete THEN Done(sum - t.duration) ELSE Running]

AdvancePause(t, cx, duration) ==
    LET sum == t.elapsed + duration
        complete == LeafComplete(sum, t.duration)
    IN [tw |-> [t EXCEPT !.elapsed = IF complete THEN t.duration ELSE sum],
        cx |-> IF complete THEN Send(cx, t.completed_event) ELSE cx,
        res |-> IF complete THEN Done(sum - t.duration) ELSE Running]

\* variant: no zero-progress guard
AdvanceRepeatLoopNoGuard(t, cx, duration, fuel) ==
    IF fuel = 0 THEN [tw |-> t, cx |-> cx, res |-> Diverge]
    ELSE IF RepeatDone(t.times, t.count)
    THEN [tw |-> t, cx |-> Send(cx, t.completed_event), res |-> Done(duration)]
    ELSE LET d == Advance(t.tweens[1], At(cx, 1), duration)
             counted == [t EXCEPT !.count = @ + 1, !.tweens = <<d.tw>>]
         IN IF d.res.kind = "Done"
            THEN AdvanceRepeatLoop([counted EXCEPT !.tweens = <<Reset(d.tw)>>],
                                   d.cx, d.res.surplus, fuel - 1)
            ELSE [tw |-> [t EXCEPT !.tweens = <<d.tw>>], cx |-> d.cx, res |-> d.res]

\* variant: the child is not reset between iterations
AdvanceRepeatLoopNoReset(t, cx, duration, fuel) ==
    IF fuel = 0 THEN [tw |-> t, cx |-> cx, res |-> Diverge]
    ELSE IF RepeatDone(t.times, t.count)
    THEN [tw |-> t, cx |-> Send(cx, t.completed_event), res |-> Done(duration)]
    ELSE LET d == Advance(t.tweens[1], At(cx, 1), duration)
             counted == [t EXCEPT !.count = @ + 1, !.tweens = <<d.tw>>]
         IN IF d.res.kind = "Done"
            THEN IF ZeroProgress(duration, d.res.surplus, t.times)
                 THEN [tw |-> counted, cx |-> d.cx, res |-> Running]
                 ELSE AdvanceRepeatLoop(counted, d.cx, d.res.surplus, fuel - 1)
            ELSE [tw |-> [t EXCEPT !.tweens = <<d.tw>>], cx |-> d.cx, res |-> d.res]

\* one pass of `loop { ... }`; fuel counts the passes that are left
AdvanceRepeatLoop(t, cx, duration, fuel) ==
    IF fuel = 0 THEN [tw |-> t, cx |-> cx, res |-> Diverge]
    ELSE IF RepeatDone(t.times, t.count)
    THEN [tw |-> t, cx |-> Send(cx, t.completed_event), res |-> Done(duration)]
    ELSE LET d == Advance(t.tweens[1], At(cx, 1), duration)
             counted == [t EXCEPT !.count = @ + 1, !.tweens = <<d.tw>>]
         IN IF d.res.kind = "Done"
            THEN IF ZeroProgress(duration, d.res.surplus, t.times)
                 THEN [tw |-> counted, cx |-> d.cx, res |-> Running]
                 ELSE AdvanceRepeatLoop([counted EXCEPT !.tweens = <<Reset(d.tw)>>],
                                        d.cx, d.res.surplus, fuel - 1)
            ELSE [tw |-> [t EXCEPT !.tweens = <<d.tw>>], cx |-> d.cx, res |-> d.res]

\* variant: the surplus of a completed iteration is dropped; the call returns
\* Running after the reset
AdvanceRepeatOneIteration(t, cx, duration) ==
    IF RepeatDone(t.times, t.count)
    THEN [tw |-> t, cx |-> Send(cx, t.completed_event), res |-> Done(duration)]
    ELSE LET d == Advance(t.tweens[1], At(cx, 1), duration)
         IN IF d.res.kind = "Done"
            THEN [tw |-> [t EXCEPT !.count = @ + 1, !.tweens = <<Reset(d.tw)>>],
                  cx |-> d.cx, res |-> Running]
            ELSE [tw |-> [t EXCEPT !.tweens = <<d.tw>>], cx |-> d.cx, res |-> d.res]

AdvanceRepeat(t, cx, duration) == AdvanceRepeatLoop(t, cx, duration, Fuel)

\* variant: the next child gets the call's duration, not the surplus
AdvanceSequenceLoopNoCarry(t, cx, duration) ==
    IF t.index + 1 > Len(t.tweens)
    THEN [tw |-> t, cx |-> Send(cx, t.completed_event), res |-> Done(duration)]
    ELSE LET d == Advance(t.tweens[t.index + 1], At(cx, t.index + 1), duration)
             stepped == [t EXCEPT !.tweens[t.index + 1] = d.tw]
         IN IF d.res.kind = "Done"
            THEN AdvanceSequenceLoop([stepped EXCEPT !.index = @ + 1], d.cx, duration)
            ELSE [tw |-> stepped, cx |-> d.cx, res |-> d.res]

\* while let Some(tween) = tweens.get_mut(*index) { ... }
AdvanceSequenceLoop(t, cx, duration) ==
    IF t.index + 1 > Len(t.tweens)
    THEN [tw |-> t, cx |-> Send(cx, t.completed_event), res |-> Done(duration)]
    ELSE LET d == Advance(t.tweens[t.index + 1], At(cx, t.index + 1), duration)
             stepped == [t EXCEPT !.tweens[t.index + 1] = d.tw]
         IN IF d.res.kind = "Done"
            THEN AdvanceSequenceLoop([stepped EXCEPT !.index = @ + 1], d.cx, d.res.surplus)
            ELSE [tw |-> stepped, cx |-> d.cx, res |-> d.res]

\* variant: every call starts at the first child
AdvanceSequenceRestart(t, cx, duration) ==
    AdvanceSequenceLoop([t EXCEPT !.index = 0], cx, duration)

AdvanceSequence(t, cx, duration) == AdvanceSequenceLoop(t, cx, duration)

\* variant: the fold stops at the first child that is Running
AdvanceParallelFoldShortCircuit(t, cx, duration, i, acc) ==
    IF i > Len(t.tweens) \/ acc.kind # "Done" THEN [tw |-> t, cx |-> cx, res |-> acc]
    ELSE LET d == Advance(t.tweens[i], At(cx, i), duration)
         IN AdvanceParallelFold([t EXCEPT !.tweens[i] = d.tw], d.cx, duration,
                                i + 1, ParallelStep(acc, d.res))

\* tweens.iter_mut().fold(acc, |acc, tween| ...) from position i on; a child
\* whose call does not return ends the fold
AdvanceParallelFold(t, cx, duration, i, acc) ==
    IF i > Len(t.tweens) \/ acc.kind = "Diverge" THEN [tw |-> t, cx |-> cx, res |-> acc]
    ELSE LET d == Advance(t.tweens[i], At(cx, i), duration)
         IN AdvanceParallelFold([t EXCEPT !.tweens[i] = d.tw], d.cx, duration,
                                i + 1, ParallelStep(acc, d.res))

\* variant: the fold starts from Done { surplus: 0 }
AdvanceParallelSeedZero(t, cx, duration) ==
    LET f == AdvanceParallelFold(t, cx, duration, 1, Done(0))
    IN [f EXCEPT !.cx = IF f.res.kind = "Done" THEN Send(f.cx, t.completed_event)
                        ELSE f.cx]

AdvanceParallel(t, cx, duration) ==
    LET f == AdvanceParallelFold(t, cx, duration, 1, Done(duration))
    IN [f EXCEPT !.cx = IF f.res.kind = "Done" THEN Send(f.cx, t.completed_event)
                        ELSE f.cx]

Advance(t, cx, duration) ==
    LET r == CASE t.kind = "Once" -> AdvanceOnce(t, cx, duration)
               [] t.kind = "Repeat" -> AdvanceRepeat(t, cx, duration)
               [] t.kind = "Sequence" -> AdvanceSequence(t, cx, duration)
               [] t.kind = "Parallel" -> AdvanceParallel(t, cx, duration)
               [] t.kind = "Pause" -> AdvancePause(t, cx, duration)
    IN [r EXCEPT !.cx = Returned(r.cx, cx.path, r.tw, duration, r.res)]

\* ------------------------------------------------------------------- skip
\* Every operator returns [tw: the node afterwards, res: the TweenProgress].
\* variant: elapsed is not clamped to the duration
SkipOnceNoClamp(t, duration) ==
    LET sum == t.elapsed + duration
        complete == LeafComplete(sum, t.duration)
    IN [tw |-> [t EXCEPT !.elapsed = sum],
        res |-> IF complete THEN Done(sum - t.duration) ELSE Running]

SkipOnce(t, duration) ==
    LET sum == t.elapsed + duration
        complete == LeafComplete(sum, t.duration)
    IN [tw |-> [t EXCEPT !.elapsed = IF complete THEN t.duration ELSE sum],
        res |-> IF complete THEN Done(sum - t.duration) ELSE Running]

\* variant: elapsed is not clamped to the duration
SkipPauseNoClamp(t, duration) ==
    LET sum == t.elapsed + duration
        complete == LeafComplete(sum, t.duration)
    IN [tw |-> [t EXCEPT !.elapsed = sum],
        res |-> IF complete THEN Done(sum - t.duration) ELSE Running]

SkipPause(t, duration) ==
    LET sum == t.elapsed + duration
        complete == LeafComplete(sum, t.duration)
    IN [tw |-> [t EXCEPT !.elapsed = IF complete THEN t.duration ELSE sum],
        res |-> IF complete THEN Done(sum - t.duration) ELSE Running]

\* variant: the child is not reset between iterations
SkipRepeatLoopNoReset(t, duration, fuel) ==
    IF fuel = 0 THEN [tw |-> t, res |-> Diverge]
    ELSE IF RepeatDone(t.times, t.count) THEN [tw |-> t, res |-> Done(duration)]
    ELSE LET d == Skip(t.tweens[1], duration)
             counted == [t EXCEPT !.count = @ + 1, !.tweens = <<d.tw>>]
         IN IF d.res.kind = "Done"
            THEN IF ZeroProgress(duration, d.res.surplus, t.times)
                 THEN [tw |-> counted, res |-> Running]
                 ELSE SkipRepeatLoop(counted, d.res.surplus, fuel - 1)
            ELSE [tw |-> [t EXCEPT !.tweens = <<d.tw>>], res |-> d.res]

\* variant: no zero-progress guard
SkipRepeatLoopNoGuard(t, duration, fuel) ==
    IF fuel = 0 THEN [tw |-> t, res |-> Diverge]
    ELSE IF RepeatDone(t.times, t.count) THEN [tw |-> t, res |-> Done(duration)]
    ELSE LET d == Skip(t.tweens[1], duration)
             counted == [t EXCEPT !.count = @ + 1, !.tweens = <<d.tw>>]
         IN IF d.res.kind = "Done"
            THEN SkipRepeatLoop([counted EXCEPT !.tweens = <<Reset(d.tw)>>],
                                d.res.surplus, fuel - 1)
            ELSE [tw |-> [t EXCEPT !.tweens = <<d.tw>>], res |-> d.res]

SkipRepeatLoop(t, duration, fuel) ==
    IF fuel = 0 THEN [tw |-> t, res |-> Diverge]
    ELSE IF RepeatDone(t.times, t.count) THEN [tw |-> t, res |-> Done(duration)]
    ELSE LET d == Skip(t.tweens[1], duration)
             counted == [t EXCEPT !.count = @ + 1, !.tweens = <<d.tw>>]
         IN IF d.res.kind = "Done"
            THEN IF ZeroProgress(duration, d.res.surplus, t.times)
                 THEN [tw |-> counted, res |-> Running]
                 ELSE SkipRepeatLoop([counted EXCEPT !.tweens = <<Reset(d.tw)>>],
                                     d.res.surplus, fuel - 1)
            ELSE [tw |-> [t EXCEPT !.tweens = <<d.tw>>], res |-> d.res]

SkipRepeat(t, duration) == SkipRepeatLoop(t, duration, Fuel)

SkipSequenceLoop(t, duration) ==
    IF t.index + 1 > Len(t.tweens) THEN [tw |-> t, res |-> Done(duration)]
    ELSE LET d == Skip(t.tweens[t.index + 1], duration)
             stepped == [t EXCEPT !.tweens[t.index + 1] = d.tw]
         IN IF d.res.kind = "Done"
            THEN SkipSequenceLoop([stepped EXCEPT !.index = @ + 1], d.res.surplus)
            ELSE [tw |-> stepped, res |-> d.res]

SkipSequence(t, duration) == SkipSequenceLoop(t, duration)

SkipParallelFold(t, duration, i, acc) ==
    IF i > Len(t.tweens) \/ acc.kind = "Diverge" THEN [tw |-> t, res |-> acc]
    ELSE LET d == Skip(t.tweens[i], duration)
         IN SkipParallelFold([t EXCEPT !.tweens[i] = d.tw], duration,
                             i + 1, ParallelStep(acc, d.res))

SkipParallel(t, duration) == SkipParallelFold(t, duration, 1, Done(duration))

Skip(t, duration) ==
    CASE t.kind = "Once" -> SkipOnce(t, duration)
      [] t.kind = "Repeat" -> SkipRepeat(t, duration)
      [] t.kind = "Sequence" -> SkipSequence(t, duration)
      [] t.kind = "Parallel" -> SkipParallel(t, duration)
      [] t.kind = "Pause" -> SkipPause(t, duration)

\* ------------------------------------------------------------------ reset
\* for tween in tweens.iter_mut().take(n) { tween.reset(); }, from position i
ResetPrefix(tweens, n, i) ==
    IF i > n \/ i > Len(tweens) THEN tweens
    ELSE ResetPrefix([tweens EXCEPT ![i] = Reset(tweens[i])], n, i + 1)

ResetOnce(t) == [t EXCEPT !.elapsed = 0]
ResetRepeat(t) == [t EXCEPT !.count = 0, !.tweens = <<Reset(t.tweens[1])>>]
\* variant: the cursor is left where it was
ResetSequenceKeepsIndex(t) == [t EXCEPT !.tweens = ResetPrefix(t.tweens, t.index, 1)]

ResetSequence(t) == [t EXCEPT !.tweens = ResetPrefix(t.tweens, t.index, 1), !.index = 0]
ResetParallel(t) == [t EXCEPT !.tweens = ResetPrefix(t.tweens, Len(t.tweens), 1)]
ResetPause(t) == [t EXCEPT !.elapsed = 0]

Reset(t) ==
    CASE t.kind = "Once" -> ResetOnce(t)
      [] t.kind = "Repeat" -> ResetRepeat(t)
      [] t.kind = "Sequence" -> ResetSequence(t)
      [] t.kind = "Parallel" -> ResetParallel(t)
      [] t.kind = "Pause" -> ResetPause(t)

\* ------------------------------------------------------ the trees driven
Durations == 0 .. MaxDur
Inputs == 0 .. MaxDt

Leaves == {New(d, 1) : d \in Durations} \cup {Pause(d) : d \in Durations}

Policies == {N(k) : k \in 0 .. MaxTimes} \cup {Infinite}

Lists(S) == UNION {[1 .. n -> S] : n \in 0 .. MaxLen}

\* children of the deeper trees: the leaves and composites of the unit tests
\* (tween_repeat, tween_sequence, tween_sequence_with_endless_loop,
\* tween_parallel) and the degenerate ones
Inner ==
    {New(1, 2), Pause(1), Pause(0),
     Repeat(N(2), New(1, 4)), Repeat(Infinite, New(1, 5)),
     Repeat(Infinite, Pause(0)),
     Sequence(<< >>),
     Sequence(<<New(1, 2), Pause(1)>>),
     Parallel(<<New(1, 2), New(2, 4)>>)}

\* the child lists of the deeper trees: one child or two, as in the unit tests
Pairs(S) == {<<a>> : a \in S} \cup {<<a, b>> : a \in S, b \in S}

\* repeat, sequence and parallel over the children c and the child lists l
Composites(C, L) ==
    {Repeat(p, c) : p \in Policies, c \in C}
        \cup {Sequence(l) : l \in L}
        \cup {Parallel(l) : l \in L}

Shallow == Leaves \cup Composites(Leaves, Lists(Leaves))
Deep == Composites(Inner, Pairs(Inner))

Trees == Shallow \cup Deep

\* with_completed on every node of the tree; the payload is the node's path
RECURSIVE WithCompletedAll(_, _)
WithCompletedAll(t, path) ==
    WithCompleted([t EXCEPT !.tweens =
                       [i \in 1 .. Len(t.tweens) |->
                           WithCompletedAll(t.tweens[i], Append(path, i))]],
                  path)

\* ------------------------------------------------------------------ state
VARIABLES
    tween,     \* the tree
    target,    \* the f32 the appliers write
    sent,      \* events the sink received during the last call
    progress,  \* TweenProgress of the last call
    op,        \* the last call: "new", "advance", "skip" or "reset"
    dt,        \* input duration of the last call
    pre,       \* the tree as it was before the last call
    total,     \* sum of the input durations since construction or reset
    calls,     \* number of calls made
    applied,   \* values the appliers received during the last call
    log,       \* calls of advance on the nodes during the last call
    app        \* the world the plugin's systems run in (src/src/plugin.rs)

vars == <<tween, target, sent, progress, op, dt, pre, total, calls, applied, log,
          app>>

\* Time<()> and Time<Real>
Domains == {"Virtual", "Real"}

\* no system has run
NoSystem == [system |-> "none", time |-> "Virtual"]

\* World::new() with default time resources and an empty event bus
NewWorld(world) ==
    [world |-> world, delta |-> [I \in Domains |-> 0], bus |-> << >>,
     ran |-> NoSystem, ticks |-> 0]

\* the context a call starts in
Context(t) == [target |-> t, sent |-> << >>, applied |-> << >>, log |-> << >>,
               path |-> << >>]

Init ==
    /\ tween \in Trees \cup {WithCompletedAll(t, << >>) : t \in Leaves \cup Deep}
    /\ target = Frac(0, 1)
    /\ sent = << >>
    /\ progress = Running
    /\ op = "new"
    /\ dt = 0
    /\ pre = tween
    /\ total = 0
    /\ calls = 0
    /\ applied = << >>
    /\ log = << >>
    /\ app = NewWorld(<< >>)

\* a call can be made when the call before it returned
Callable == calls < MaxCalls /\ progress.kind # "Diverge"

CallAdvance(duration) ==
    /\ Callable
    /\ LET r == Advance(tween, Context(target), duration)
       IN /\ tween' = r.tw
          /\ target' = r.cx.target
          /\ sent' = r.cx.sent
          /\ applied' = r.cx.applied
          /\ log' = r.cx.log
          /\ progress' = r.res
    /\ op' = "advance"
    /\ dt' = duration
    /\ pre' = tween
    /\ total' = total + duration
    /\ calls' = calls + 1
    /\ UNCHANGED app

\* variant: skip runs the advance algorithm on the driver's target and sink
CallSkipApplying(duration) ==
    /\ Callable
    /\ LET r == Advance(tween, Context(target), duration)
       IN /\ tween' = r.tw
          /\ target' = r.cx.target
          /\ sent' = r.cx.sent
          /\ progress' = r.res
    /\ op' = "skip"
    /\ dt' = duration
    /\ pre' = tween
    /\ total' = total + duration
    /\ calls' = calls + 1
    /\ applied' = << >>
    /\ log' = << >>
    /\ UNCHANGED app

CallSkip(duration) ==
    /\ Callable
    /\ LET r == Skip(tween, duration)
       IN /\ tween' = r.tw
          /\ progress' = r.res
    /\ sent' = << >>
    /\ op' = "skip"
    /\ dt' = duration
    /\ pre' = tween
    /\ total' = total + duration
    /\ calls' = calls + 1
    /\ applied' = << >>
    /\ log' = << >>
    /\ UNCHANGED <<target, app>>

CallReset ==
    /\ Callable
    /\ op # "reset"
    /\ tween' = Reset(tween)
    /\ sent' = << >>
    /\ progress' = Running
    /\ op' = "reset"
    /\ dt' = 0
    /\ pre' = tween
    /\ total' = 0
    /\ calls' = calls + 1
    /\ applied' = << >>
    /\ log' = << >>
    /\ UNCHANGED <<target, app>>

\* the public interface: advance and skip
Next == \E duration \in Inputs : CallAdvance(duration) \/ CallSkip(duration)

Spec == Init /\ [][Next]_vars

\* the public interface and reset, which the module itself can call on any node
NextReset == Next \/ CallReset

SpecReset == Init /\ [][NextReset]_vars

\* ------------------------------------------- vocabulary of the properties
\* the node with the clock state its constructors give it
RECURSIVE Fresh(_)
Fresh(t) ==
    [t EXCEPT !.elapsed = 0, !.count = 0, !.index = 0,
              !.tweens = [i \in 1 .. Len(t.tweens) |-> Fresh(t.tweens[i])]]

\* no Repeat(Infinite) anywhere in the node
RECURSIVE Finite(_)
Finite(t) ==
    /\ t.kind = "Repeat" => ~t.times.inf
    /\ \A i \in 1 .. Len(t.tweens) : Finite(t.tweens[i])

RECURSIVE SumTo(_, _)
SumTo(f, n) == IF n = 0 THEN 0 ELSE f[n] + SumTo(f, n - 1)

RECURSIVE MaxTo(_, _)
MaxTo(f, n) == IF n = 0 THEN 0 ELSE LET m == MaxTo(f, n - 1) IN IF f[n] > m THEN f[n] ELSE m

\* time a finite node takes from construction to completion
RECURSIVE TotalDuration(_)
TotalDuration(t) ==
    LET ds == [i \in 1 .. Len(t.tweens) |-> TotalDuration(t.tweens[i])]
    IN CASE t.kind \in {"Once", "Pause"} -> t.duration
         [] t.kind = "Repeat" -> t.times.n * ds[1]
         [] t.kind = "Sequence" -> SumTo(ds, Len(ds))
         [] t.kind = "Parallel" -> MaxTo(ds, Len(ds))

\* total duration of the first n children
PrefixDuration(t, n) ==
    SumTo([i \in 1 .. Len(t.tweens) |-> TotalDuration(t.tweens[i])], n)

Occurrences(s, e) == Cardinality({i \in 1 .. Len(s) : s[i] = e})

IsCall == op \in {"advance", "skip"}

\* the last call is the first one whose cumulative input reached d
FirstReach(d) == total >= d /\ (total - dt < d \/ calls = 1)

NoContext == Context(Frac(0, 1))

\* ------------------------------------------------------------ properties
\* C1: a node that carries a completion event sends it exactly once per
\* completion: on the advance call in which it first returns Done, on no call
\* that returns Running and on no later call that re-reports Done.
C1_EventOncePerCompletion ==
    [][(op' = "advance" /\ tween.completed_event # None)
          => Occurrences(sent', tween.completed_event[1])
               = IF progress'.kind = "Done" /\ progress.kind # "Done" THEN 1 ELSE 0]_vars

\* C2: a Sequence of finite children returns Running while the cumulative
\* input is below the sum of the children's total durations, returns Done with
\* surplus = cumulative input - sum on the first call that reaches the sum, and
\* while Running its cursor stands on the child the cumulative input falls
\* into, a leaf there holding exactly the time the children before it left.
C2_SequenceCarriesSurplus ==
    (tween.kind = "Sequence" /\ Finite(tween) /\ IsCall) =>
        LET sum == TotalDuration(tween)
            cursor == tween.tweens[tween.index + 1]
        IN /\ total < sum =>
                /\ progress = Running
                /\ tween.index < Len(tween.tweens)
                /\ PrefixDuration(tween, tween.index) <= total
                /\ total < PrefixDuration(tween, tween.index + 1)
                /\ cursor.kind \in {"Once", "Pause"} =>
                       cursor.elapsed = total - PrefixDuration(tween, tween.index)
           /\ FirstReach(sum) =>
                /\ progress = Done(total - sum)
                /\ tween.index = Len(tween.tweens)

C2_Witness ==
    /\ tween.kind = "Sequence" /\ Finite(tween) /\ op = "advance"
    /\ Len(tween.tweens) = 2
    /\ TotalDuration(tween.tweens[1]) > 0
    /\ TotalDuration(tween.tweens[2]) > 0
    /\ calls >= 2
    /\ total - dt < PrefixDuration(tween, 1)
    /\ progress.kind = "Done" /\ progress.surplus > 0

\* C3: a Repeat with policy N(k) over a finite child of positive duration d
\* returns Running with count = completed iterations until the child has
\* completed k times, and on the call of the k-th completion returns
\* Done(cumulative input - k*d) with count = k and the child back at its
\* construction-time clock state.
C3_RepeatN ==
    (tween.kind = "Repeat" /\ Finite(tween) /\ IsCall
        /\ TotalDuration(tween.tweens[1]) > 0) =>
        LET d == TotalDuration(tween.tweens[1])
            k == tween.times.n
        IN /\ total < k * d =>
                /\ progress = Running
                /\ tween.count = total \div d
                /\ tween.count < k
           /\ FirstReach(k * d) =>
                /\ progress = Done(total - k * d)
                /\ tween.count = k
                /\ tween.tweens[1] = Fresh(tween.tweens[1])

C3_Witness ==
    /\ tween.kind = "Repeat" /\ tween.times = N(2) /\ op = "advance"
    /\ TotalDuration(tween.tweens[1]) > 0
    /\ pre.count = 1 /\ pre.tweens[1] # Fresh(pre.tweens[1])
    /\ tween.count = 2
    /\ progress.kind = "Done" /\ progress.surplus > 0

\* C4: a Parallel's advance returns Done exactly when every child returned
\* Done in that call, its surplus then being the minimum of the children's
\* surpluses (the whole input when there is no child), and Running when some
\* child returned Running.
ChildResults == [i \in 1 .. Len(pre.tweens) |-> Advance(pre.tweens[i], NoContext, dt).res]

C4_ParallelDoneIffAllDone ==
    (pre.kind = "Parallel" /\ op = "advance") =>
        /\ progress.kind = "Done" <=>
               \A i \in 1 .. Len(pre.tweens) : ChildResults[i].kind = "Done"
        /\ (\E i \in 1 .. Len(pre.tweens) : ChildResults[i].kind = "Running")
               => progress = Running
        /\ (progress.kind = "Done" /\ Len(pre.tweens) > 0) =>
               /\ \A i \in 1 .. Len(pre.tweens) : progress.surplus <= ChildResults[i].surplus
               /\ \E i \in 1 .. Len(pre.tweens) : progress.surplus = ChildResults[i].surplus
        /\ Len(pre.tweens) = 0 => progress = Done(dt)

C4_Witness ==
    /\ pre.kind = "Parallel" /\ op = "advance" /\ Len(pre.tweens) = 2
    /\ progress.kind = "Done"
    /\ ChildResults[1].surplus # ChildResults[2].surplus
    /\ progress.surplus < dt

\* C5: a Repeat(Infinite, child) whose child has zero duration returns Running
\* on advance and on skip for every input duration > 0.
C5_ZeroDurationGuard ==
    (pre.kind = "Repeat" /\ pre.times = Infinite /\ Finite(pre.tweens[1])
        /\ TotalDuration(pre.tweens[1]) = 0 /\ IsCall /\ dt > 0)
        => progress = Running

C5_Witness ==
    /\ pre.kind = "Repeat" /\ pre.times = Infinite /\ Finite(pre.tweens[1])
    /\ TotalDuration(pre.tweens[1]) = 0 /\ op = "skip" /\ dt > 0
    /\ tween.count = 2
    /\ progress = Running

\* C6: every advance and every skip call returns.
C6_CallsTerminate == progress.kind # "Diverge"

\* a Repeat(Infinite) below the root has stopped at the zero-progress guard
\* and another has gone through several passes of its loop in one call
C6_Witness ==
    /\ op = "advance" /\ pre = Fresh(pre)
    /\ tween.kind \in {"Sequence", "Parallel"} /\ Len(tween.tweens) = 2
    /\ tween.tweens[1].kind = "Repeat" /\ tween.tweens[1].times = Infinite
    /\ tween.tweens[1].count = 1 /\ TotalDuration(tween.tweens[1].tweens[1]) = 0
    /\ tween.tweens[2].kind = "Repeat" /\ tween.tweens[2].times = Infinite
    /\ tween.tweens[2].count = 3

\* C7: once a Once, Pause, Sequence, Parallel or Repeat N has returned Done,
\* every later advance or skip returns Done with the whole input as surplus.
C7_DoneAbsorbing ==
    [][progress.kind = "Done" => progress' = Done(dt')]_vars

C7_Witness ==
    /\ calls >= 2 /\ op = "advance" /\ dt > 0
    /\ tween.kind = "Parallel" /\ Len(tween.tweens) = 2
    /\ pre = tween
    /\ progress = Done(dt)

\* C8: advance on a Once or Pause leaf with duration d and elapsed e returns
\* Done(e + dt - d) and leaves elapsed = d when e + dt >= d, and otherwise
\* returns Running and leaves elapsed = e + dt.
C8_LeafClock ==
    (pre.kind \in {"Once", "Pause"} /\ op = "advance") =>
        IF pre.elapsed + dt >= pre.duration
        THEN progress = Done(pre.elapsed + dt - pre.duration)
                 /\ tween.elapsed = pre.duration
        ELSE progress = Running /\ tween.elapsed = pre.elapsed + dt

C8_Witness ==
    /\ pre.kind = "Once" /\ op = "advance"
    /\ pre.elapsed > 0 /\ pre.elapsed < pre.duration
    /\ progress = Done(1) /\ tween.elapsed = pre.duration

\* C9: in every reachable state and for every input, skip returns the same
\* TweenProgress as advance and leaves the same elapsed, count and index
\* everywhere in the tree.
C9_SkipMirrorsAdvance ==
    \A duration \in Inputs :
        LET a == Advance(tween, NoContext, duration)
            s == Skip(tween, duration)
        IN a.res = s.res /\ a.tw = s.tw

C9_Witness ==
    /\ op = "skip" /\ calls >= 2
    /\ tween.kind = "Sequence" /\ Len(tween.tweens) = 2
    /\ tween.index = 1
    /\ tween.tweens[2].kind = "Repeat" /\ tween.tweens[2].count = 1
    /\ Skip(tween, MaxDt).res.kind = "Done"

\* C10: reset after a partial advance returns every elapsed, count and index
\* of the node's subtree to its construction-time value.
C10_ResetRestoresConstruction ==
    op = "reset" => tween = Fresh(tween)

\* the entries of the trace that are Done returns of a node carrying event e
DoneReturns(e) ==
    {j \in 1 .. Len(log) : log[j].completed_event = Some(e) /\ log[j].res.kind = "Done"}

\* C11 as stated: within one advance call no node sends its completion event
\* more than once.
C11_AtMostOneEventPerCall ==
    op = "advance" => \A i \in 1 .. Len(sent) : Occurrences(sent, sent[i]) <= 1

\* C11 as amended: within one advance call a node sends its completion event
\* once for every Done it returns in that call and never otherwise, so a node
\* under a Repeat that completes several iterations in the call sends it once
\* per iteration.
C11_OneEventPerDoneReturn ==
    op = "advance" =>
        /\ \A i \in 1 .. Len(sent) :
               Occurrences(sent, sent[i]) = Cardinality(DoneReturns(sent[i]))
        /\ \A j \in 1 .. Len(log) :
               (log[j].completed_event # None /\ log[j].res.kind = "Done")
                   => Occurrences(sent, log[j].completed_event[1]) >= 1

C11_Witness ==
    /\ op = "advance" /\ tween.kind = "Repeat"
    /\ tween.tweens[1].completed_event = Some(<<1>>)
    /\ Cardinality(DoneReturns(<<1>>)) = 2
    /\ Occurrences(sent, <<1>>) = 2
    /\ Occurrences(sent, << >>) = 1

\* the returns of the Once leaves in the trace, in order
IsOnceReturn(entry) == entry.kind = "Once"
OnceReturns == SelectSeq(log, IsOnceReturn)

\* C12: every advance of a Once leaf calls its applier exactly once, with the
\* interpolated quotient of the clamped elapsed and the duration; for a leaf
\* of positive duration the call that yields Done and every later call hand
\* the applier interpolator(1.0), and the target of a leaf that reports Done
\* holds the terminal value.
C12_OnceAppliesEveryCall ==
    op = "advance" =>
        /\ Len(applied) = Len(OnceReturns)
        /\ \A i \in 1 .. Len(applied) :
               LET r == OnceReturns[i]
               IN /\ applied[i].path = r.path
                  /\ r.elapsed <= r.duration
                  /\ applied[i].value = Interpolate(Frac(r.elapsed, r.duration))
                  /\ (r.res.kind = "Done" /\ r.duration > 0)
                         => applied[i].value = Interpolate(Frac(1, 1))
        /\ (tween.kind = "Once" /\ tween.duration > 0 /\ progress.kind = "Done")
               => target = Frac(2 * tween.applier, 1)

C12_Witness ==
    /\ op = "advance" /\ tween.kind = "Once" /\ tween.duration > 0
    /\ pre.elapsed = pre.duration
    /\ progress.kind = "Done"
    /\ applied = <<[path |-> << >>, applier |-> tween.applier, value |-> Frac(1, 1)]>>
    /\ target = Frac(2 * tween.applier, 1)

\* the returns of the root's children in the trace, in order
IsChildReturn(entry) == Len(entry.path) = 1
ChildReturns == SelectSeq(log, IsChildReturn)

IsLeaf(t) == t.kind \in {"Once", "Pause"}

\* C13: when the child of a Repeat completes with surplus s and repeats
\* remain, the same advance call counts the iteration, resets the child and
\* advances it again with exactly s, also when s = 0: a leaf child that is then
\* Running has elapsed = s and a Once child has put the target at s/d, the
\* start position 0 when the input was an exact multiple of its duration.
C13_RepeatReadvancesWithSurplus ==
    (pre.kind = "Repeat" /\ op = "advance") =>
        LET c == ChildReturns
            n == Len(c)
            child == tween.tweens[1]
        IN /\ n >= 1 => c[1].dt = dt
           /\ \A i \in 1 .. n - 1 :
                  c[i].res.kind = "Done" /\ c[i + 1].dt = c[i].res.surplus
           /\ tween.count = pre.count + Cardinality({i \in 1 .. n : c[i].res.kind = "Done"})
           /\ (n >= 1 /\ c[n].res.kind = "Done") =>
                  \/ RepeatDone(tween.times, tween.count)
                  \/ ZeroProgress(c[n].dt, c[n].res.surplus, tween.times)
           /\ \A i \in 2 .. n :
                  IsLeaf(child) =>
                      IF c[i].res.kind = "Running"
                      THEN c[i].elapsed = c[i].dt
                      ELSE c[i].res.surplus = c[i].dt - child.duration
           /\ (n >= 2 /\ c[n].res.kind = "Running" /\ IsLeaf(child)) =>
                  /\ child.elapsed = c[n - 1].res.surplus
                  /\ child.kind = "Once" =>
                         target = Scale(2 * child.applier,
                                        Frac(c[n - 1].res.surplus, child.duration))

C13_Witness ==
    /\ pre.kind = "Repeat" /\ op = "advance" /\ dt > 0
    /\ tween.tweens[1].kind = "Once"
    /\ Len(ChildReturns) = 2
    /\ ChildReturns[1].res = Done(0)
    /\ ChildReturns[2].res = Running
    /\ applied[1].value = Frac(1, 1)
    /\ tween.count = pre.count + 1
    /\ tween.tweens[1].elapsed = 0
    /\ target = Frac(0, 1)

\* C14 as stated: every Done(surplus) of a leaf, repeated ones included, has
\* elapsed = duration and surplus = sum of the inputs since construction minus
\* the duration.
C14_DoneSurplusIsTotalMinusDuration ==
    (IsLeaf(tween) /\ IsCall /\ progress.kind = "Done") =>
        /\ tween.elapsed = tween.duration
        /\ progress.surplus = total - tween.duration

\* C14 as amended: every Done(surplus) of a leaf has elapsed = duration; the
\* first Done carries surplus = sum of the inputs since construction minus the
\* duration, and every repeated Done carries that call's whole input.
C14_DoneSurplusFirstAndRepeated ==
    (IsLeaf(tween) /\ IsCall /\ progress.kind = "Done") =>
        /\ tween.elapsed = tween.duration
        /\ progress.surplus = IF FirstReach(tween.duration)
                              THEN total - tween.duration
                              ELSE dt

C14_Witness ==
    /\ IsLeaf(tween) /\ IsCall /\ tween.duration > 0
    /\ calls = 3
    /\ ~FirstReach(tween.duration)
    /\ progress.kind = "Done" /\ progress.surplus > 0
    /\ progress.surplus < total - tween.duration

\* a Repeat(Infinite), or a Sequence or Parallel with such a node among its
\* children
RECURSIVE Unending(_)
Unending(t) ==
    \/ t.kind = "Repeat" /\ t.times = Infinite
    \/ /\ t.kind \in {"Sequence", "Parallel"}
       /\ \E i \in 1 .. Len(t.tweens) : Unending(t.tweens[i])

\* C15: a Repeat with policy Infinite returns Running from every advance and
\* every skip, and so does a Sequence or Parallel that contains one.
C15_InfiniteNeverDone ==
    (Unending(pre) /\ IsCall) => progress = Running

\* the endless-loop test: a leaf followed by an infinite repeat of a leaf,
\* given far more time than both leaves take
C15_Witness ==
    /\ pre.kind = "Sequence" /\ Len(pre.tweens) = 2 /\ op = "advance"
    /\ pre.tweens[1].kind = "Once"
    /\ pre.tweens[2].kind = "Repeat" /\ pre.tweens[2].times = Infinite
    /\ pre.tweens[2].tweens[1].kind = "Once"
    /\ tween.index = 1
    /\ tween.tweens[2].count >= 2
    /\ total >= 3 * (pre.tweens[1].duration + pre.tweens[2].tweens[1].duration)
    /\ progress = Running

\* a Repeat(Infinite) over a finite child of zero duration that has stopped
\* at the zero-progress guard before
Stalled(t) ==
    /\ t.kind = "Repeat" /\ t.times = Infinite
    /\ Finite(t.tweens[1]) /\ TotalDuration(t.tweens[1]) = 0
    /\ t.count >= 1

\* C16: after a Repeat(Infinite) with a zero-duration child has stopped at the
\* guard, every later advance or skip returns Running after exactly one pass
\* of the loop: it counts one more iteration, advances the child once and
\* leaves the tree usable.
C16_GuardRedetected ==
    (Stalled(pre) /\ IsCall) =>
        /\ progress = Running
        /\ tween.count = pre.count + 1
        /\ op = "advance" => Len(ChildReturns) = 1 /\ ChildReturns[1].res = Done(dt)
        /\ Stalled(tween)

C16_Witness ==
    /\ Stalled(pre) /\ pre.count = 2 /\ op = "advance" /\ dt > 0
    /\ tween.count = 3
    /\ progress = Running

\* C17: every advance of a Parallel advances each of its children exactly
\* once, in list order and with the call's own input, whatever the children
\* returned in this call or in earlier ones.
C17_ParallelAdvancesEveryChild ==
    (pre.kind = "Parallel" /\ op = "advance") =>
        /\ Len(ChildReturns) = Len(pre.tweens)
        /\ \A i \in 1 .. Len(ChildReturns) :
               /\ ChildReturns[i].path = <<i>>
               /\ ChildReturns[i].dt = dt
               /\ ChildReturns[i].res = ChildResults[i]

\* the first child is still Running and the second, Done in an earlier call,
\* is advanced again
C17_Witness ==
    /\ pre.kind = "Parallel" /\ op = "advance" /\ Len(pre.tweens) = 2
    /\ calls >= 2 /\ dt > 0
    /\ IsLeaf(pre.tweens[2]) /\ pre.tweens[2].elapsed = pre.tweens[2].duration
    /\ pre.tweens[2].duration > 0
    /\ ChildReturns[1].res = Running
    /\ ChildReturns[2].res = Done(dt)

\* ----------------------------------------------- the tween_sequence scenario
\* tests::tween_sequence in units of half a second: a leaf of 1 s with applier
\* a followed by two repeats of a leaf of 1 s with applier b, advanced by
\* 0.5 s, 1.0 s and 2.0 s
Script == <<1, 2, 4>>

Scenario(a, b) == Sequence(<<New(2, a), Repeat(N(2), New(2, b))>>)

InitScenario ==
    /\ tween \in {Scenario(a, b) : a \in 1 .. MaxMult, b \in 1 .. MaxMult}
    /\ target = Frac(0, 1)
    /\ sent = << >>
    /\ progress = Running
    /\ op = "new"
    /\ dt = 0
    /\ pre = tween
    /\ total = 0
    /\ calls = 0
    /\ applied = << >>
    /\ log = << >>
    /\ app = NewWorld(<< >>)

NextScenario == calls < Len(Script) /\ CallAdvance(Script[calls + 1])

SpecScenario == InitScenario /\ [][NextScenario]_vars

\* C18 as stated: tween_sequence with the appliers 2 and 4 yields Running with
\* target 1.0, Running with target 4.0 and Done(0.5 s) with target 8.0.
C18_ScenarioAsStated ==
    Fresh(tween) = Scenario(2, 4) =>
        /\ calls = 1 => progress = Running /\ target = Frac(1, 1)
        /\ calls = 2 => progress = Running /\ target = Frac(4, 1)
        /\ calls = 3 => progress = Done(1) /\ target = Frac(8, 1)

\* C18 as amended: the scenario with the appliers a and b yields Running with
\* target a, Running with target b and Done(0.5 s) with target 2b; with the
\* test's appliers 2 and 4 these are the targets 2.0, 4.0 and 8.0.
C18_ScenarioAsTested ==
    LET a == tween.tweens[1].applier
        b == tween.tweens[2].tweens[1].applier
    IN /\ calls = 1 => progress = Running /\ target = Frac(a, 1)
       /\ calls = 2 => progress = Running /\ target = Frac(b, 1)
       /\ calls = 3 => progress = Done(1) /\ target = Frac(2 * b, 1)
       /\ Fresh(tween) = Scenario(2, 4) =>
              /\ calls = 1 => target = Frac(2, 1)
              /\ calls = 2 => target = Frac(4, 1)
              /\ calls = 3 => target = Frac(8, 1)

C18_Witness ==
    /\ Fresh(tween) = Scenario(2, 4)
    /\ calls = 3 /\ total = 7
    /\ progress = Done(1)
    /\ target = Frac(8, 1)
    /\ tween.index = 2 /\ tween.tweens[2].count = 2

\* ------------------------------------------------------------ skip's frame
\* some node of the tree carries a completion event
RECURSIVE HasEvent(_)
HasEvent(t) ==
    \/ t.completed_event # None
    \/ \E i \in 1 .. Len(t.tweens) : HasEvent(t.tweens[i])

\* C19: a skip call leaves the target as it was and sends nothing, also when
\* it completes nodes; of the tree only elapsed, count and index change.
C19_SkipFrame ==
    [][op' = "skip" =>
           /\ target' = target
           /\ sent' = << >>
           /\ Fresh(tween') = Fresh(tween)]_vars

C19_Witness ==
    /\ op = "skip"
    /\ progress.kind = "Done"
    /\ pre # tween
    /\ HasEvent(tween)
    /\ target # Frac(0, 1)
    /\ sent = << >>

\* ---------------------------------------------------------- leaf clamping
\* every Once and Pause leaf of the node has elapsed <= duration
RECURSIVE LeavesClamped(_)
LeavesClamped(t) ==
    /\ IsLeaf(t) => t.elapsed <= t.duration
    /\ \A i \in 1 .. Len(t.tweens) : LeavesClamped(t.tweens[i])

\* C20: after every advance, skip and reset call, every Once and Pause leaf
\* of the tree has elapsed <= duration.
C20_LeavesClamped == LeavesClamped(tween)

C20_Witness ==
    /\ op = "skip"
    /\ calls = MaxCalls
    /\ tween.kind = "Sequence" /\ Len(tween.tweens) = 2
    /\ tween.tweens[1].kind = "Once"
    /\ tween.tweens[1].duration > 0
    /\ pre.tweens[1].elapsed < tween.tweens[1].duration
    /\ pre.tweens[1].elapsed + dt > tween.tweens[1].duration
    /\ tween.tweens[1].elapsed = tween.tweens[1].duration

\* ------------------------------------------------------------- the plugin
\* PlayTween<T, E, I>: I is the time domain; buffered tells the component
\* type PlayTween<(T, TweenBuffer<W>), E, I> from PlayTween<T, E, I>
NewWithTime(tw, I, buffered) ==
    [tween |-> tw, despawn |-> FALSE, time |-> I, buffered |-> buffered]

DespawnOnDone(self) == [self EXCEPT !.despawn = TRUE]

\* world.spawn((T::default(), play_tween)) with or without a TweenBuffer<W>
Spawn(play, buffer) ==
    [alive |-> TRUE, play |-> play, target |-> Frac(0, 1), buffer |-> buffer]

\* variant: the query does not tell the time domains apart
MatchesAnyTime(e, I, buffered) ==
    e.alive /\ e.play.buffered = buffered

\* the entity is in the Query of the system instantiated for I
Matches(e, I, buffered) ==
    e.alive /\ e.play.time = I /\ e.play.buffered = buffered

\* the entity after commands.entity(entity).despawn() was applied
Despawned(e) == [e EXCEPT !.alive = FALSE]

\* variant: the despawn flag is not looked at
PlayTweenEntityAlwaysDespawn(e, delta) ==
    LET r == Advance(e.play.tween, Context(e.target), delta)
        advanced == [e EXCEPT !.play.tween = r.tw, !.target = r.cx.target]
    IN [entity |-> IF r.res.kind = "Done" THEN Despawned(advanced) ELSE advanced,
        sent |-> r.cx.sent]

\* the loop body of play_tween_animation for one entity of the query
PlayTweenEntity(e, delta) ==
    LET r == Advance(e.play.tween, Context(e.target), delta)
        advanced == [e EXCEPT !.play.tween = r.tw, !.target = r.cx.target]
    IN [entity |-> IF e.play.despawn /\ r.res.kind = "Done"
                   THEN Despawned(advanced) ELSE advanced,
        sent |-> r.cx.sent]

\* variant: a missing TweenBuffer is not noticed
PlayBufferedTweenEntityNoCheck(e, delta) == PlayTweenEntity(e, delta)

\* the loop body of play_buffered_tween_animation: the tick of an entity
\* without a TweenBuffer is skipped; the BufferApplier reads the buffer and
\* the copy written back is the buffer as it was
PlayBufferedTweenEntity(e, delta) ==
    IF e.buffer = None THEN [entity |-> e, sent |-> << >>]
    ELSE PlayTweenEntity(e, delta)

\* one run of a system over the entities i .. Len(world), in query order;
\* the commands are applied when the run ends
RECURSIVE RunSystem(_, _, _, _)
RunSystem(a, I, buffered, i) ==
    IF i > Len(a.world) THEN a
    ELSE IF ~Matches(a.world[i], I, buffered) THEN RunSystem(a, I, buffered, i + 1)
    ELSE LET r == IF buffered
                  THEN PlayBufferedTweenEntity(a.world[i], a.delta[I])
                  ELSE PlayTweenEntity(a.world[i], a.delta[I])
         IN RunSystem([a EXCEPT !.world[i] = r.entity, !.bus = @ \o r.sent],
                      I, buffered, i + 1)

\* the tweens of the plugin's tests: a pause of 2 s with an event
\* (test_tween_event, test_real_time) and a leaf of 2 s (test_transform_tween)
PluginTweens(event) == {WithCompleted(Pause(2), event), New(2, 1)}

\* the PlayTween components over them, for every domain and component
\* type, with and without .despawn()
PlayTweens(event) ==
    LET kept == {NewWithTime(tw, I, buffered) :
                    tw \in PluginTweens(event), I \in Domains, buffered \in BOOLEAN}
    IN kept \cup {DespawnOnDone(play) : play \in kept}

\* two entities: the first carries any of these PlayTweens, with or without
\* a TweenBuffer; the second a pause of 1 s that is kept when done
Worlds ==
    {<<Spawn(play, buffer),
       Spawn(NewWithTime(WithCompleted(Pause(1), 2), I, buffered), Some(1))>> :
        play \in PlayTweens(1), buffer \in {None, Some(1)},
        I \in Domains, buffered \in BOOLEAN}

\* the engine is not called directly
InitPlugin ==
    /\ tween = Sequence(<< >>)
    /\ target = Frac(0, 1)
    /\ sent = << >>
    /\ progress = Running
    /\ op = "new"
    /\ dt = 0
    /\ pre = tween
    /\ total = 0
    /\ calls = 0
    /\ applied = << >>
    /\ log = << >>
    /\ app \in {NewWorld(world) : world \in Worlds}

\* Time<I>::advance_by(delta): the delta the systems of the domain see
AdvanceBy(I, delta) ==
    /\ app.ticks < MaxCalls
    /\ app.delta[I] # delta
    /\ app' = [app EXCEPT !.delta[I] = delta,
                          !.ran = [system |-> "advance_by", time |-> I],
                          !.ticks = @ + 1]
    /\ UNCHANGED <<tween, target, sent, progress, op, dt, pre, total, calls,
                   applied, log>>

\* world.run_system(play_tween_animation::<T, E, I>)
PlayTweenAnimation(I) ==
    /\ app.ticks < MaxCalls
    /\ app' = [RunSystem(app, I, FALSE, 1) EXCEPT
                   !.ran = [system |-> "play_tween_animation", time |-> I],
                   !.ticks = @ + 1]
    /\ UNCHANGED <<tween, target, sent, progress, op, dt, pre, total, calls,
                   applied, log>>

\* world.run_system(play_buffered_tween_animation::<T, W, E, I>)
PlayBufferedTweenAnimation(I) ==
    /\ app.ticks < MaxCalls
    /\ app' = [RunSystem(app, I, TRUE, 1) EXCEPT
                   !.ran = [system |-> "play_buffered_tween_animation", time |-> I],
                   !.ticks = @ + 1]
    /\ UNCHANGED <<tween, target, sent, progress, op, dt, pre, total, calls,
                   applied, log>>

NextPlugin ==
    \E I \in Domains :
        \/ \E delta \in Inputs : AdvanceBy(I, delta)
        \/ PlayTweenAnimation(I)
        \/ PlayBufferedTweenAnimation(I)

SpecPlugin == InitPlugin /\ [][NextPlugin]_vars

\* ----------------------------------------------------- claims on the plugin
\* the step is one run of a system instantiated for the domain I
IsRun(I) ==
    /\ app'.ticks = app.ticks + 1
    /\ app'.ran.system \in {"play_tween_animation", "play_buffered_tween_animation"}
    /\ app'.ran.time = I

Entities == 1 .. Len(app.world)

\* C21: a run of a system of domain I leaves every PlayTween of the other
\* domain, its target and its events as they were; it leaves the bus as it was
\* when no entity is of domain I; and an entity that changes is of domain I and
\* was advanced by the delta of I.
C21_TimeDomainsIndependent ==
    [][\A I \in Domains : IsRun(I) =>
           /\ \A i \in Entities :
                  LET e == app.world[i]
                  IN /\ e.play.time # I =>
                            /\ app'.world[i] = e
                            /\ Occurrences(app'.bus, i) = Occurrences(app.bus, i)
                     /\ app'.world[i] # e =>
                            /\ e.play.time = I
                            /\ app'.world[i].play.tween =
                                   Advance(e.play.tween, Context(e.target),
                                           app.delta[I]).tw
           /\ (\A i \in Entities : app.world[i].play.time # I) => app'.bus = app.bus]_vars

C21_Witness ==
    /\ app.ran = [system |-> "play_tween_animation", time |-> "Virtual"]
    /\ app.delta["Virtual"] = 2
    /\ app.world[1].alive
    /\ app.world[1].play = NewWithTime(WithCompleted(Pause(2), 1), "Real", FALSE)
    /\ app.world[1].target = Frac(0, 1)
    /\ app.world[2].play.time = "Virtual"
    /\ app.world[2].play.tween.elapsed = 1
    /\ app.bus = <<2>>

\* C22: in a run of play_buffered_tween_animation an entity of the query
\* without a TweenBuffer is left as it was (tween, target, not despawned) and
\* none of its events is sent, while an entity of the query with a TweenBuffer
\* is advanced by the delta.
C22_MissingBufferSkipsTick ==
    [][\A I \in Domains :
           (IsRun(I) /\ app'.ran.system = "play_buffered_tween_animation") =>
               \A i \in Entities :
                   LET e == app.world[i]
                       r == Advance(e.play.tween, Context(e.target), app.delta[I])
                   IN Matches(e, I, TRUE) =>
                          /\ e.buffer = None =>
                                 /\ app'.world[i] = e
                                 /\ Occurrences(app'.bus, i) = Occurrences(app.bus, i)
                          /\ e.buffer # None =>
                                 /\ app'.world[i].play.tween = r.tw
                                 /\ app'.world[i].target = r.cx.target
                                 /\ Occurrences(app'.bus, i) =
                                        Occurrences(app.bus, i) + Len(r.cx.sent)]_vars

C22_Witness ==
    /\ app.ran.system = "play_buffered_tween_animation"
    /\ app.delta[app.ran.time] = 2
    /\ Matches(app.world[1], app.ran.time, TRUE)
    /\ app.world[1].buffer = None
    /\ app.world[1].play.despawn
    /\ app.world[1].play.tween = WithCompleted(Pause(2), 1)
    /\ Matches(app.world[2], app.ran.time, TRUE)
    /\ app.world[2].play.tween.elapsed = 1
    /\ app.bus = <<2>>

\* the entity is advanced by a run of the system: it is in the query and, for
\* the buffered system, has its TweenBuffer
Advanced(e, I, system) ==
    /\ Matches(e, I, system = "play_buffered_tween_animation")
    /\ system = "play_buffered_tween_animation" => e.buffer # None

\* C23: a run despawns an entity iff the run advanced its tween, the advance
\* returned Done and the despawn flag is set; every other entity is kept with
\* its PlayTween and stays in the query of the next run.
C23_DespawnIffDoneAndFlag ==
    [][\A I \in Domains : IsRun(I) =>
           \A i \in Entities :
               LET e == app.world[i]
                   r == Advance(e.play.tween, Context(e.target), app.delta[I])
               IN e.alive =>
                      /\ ~app'.world[i].alive <=>
                             /\ Advanced(e, I, app'.ran.system)
                             /\ r.res.kind = "Done"
                             /\ e.play.despawn
                      /\ app'.world[i].alive =>
                             /\ app'.world[i].play.despawn = e.play.despawn
                             /\ app'.world[i].play.time = e.play.time
                             /\ app'.world[i].play.buffered = e.play.buffered
                             /\ app'.world[i].buffer = e.buffer
                             /\ Fresh(app'.world[i].play.tween) = Fresh(e.play.tween)]_vars

C23_Witness ==
    /\ app.ran.system = "play_tween_animation"
    /\ app.delta[app.ran.time] = 1
    /\ ~app.world[1].alive
    /\ app.world[1].play.despawn
    /\ app.world[1].play.tween.elapsed = 2
    /\ app.world[2].alive
    /\ app.world[2].play.tween.elapsed = 1
    /\ app.bus = <<2, 1, 2>>

\* ------------------------------------------------------ the Sequence cursor
\* the node reports Done without being given time
Finished(t) == Skip(t, 0).res.kind = "Done"

\* every Sequence of the node has its cursor within the list, finished
\* children before the cursor and untouched children after the cursor child
RECURSIVE CursorOrdered(_)
CursorOrdered(t) ==
    /\ t.kind = "Sequence" =>
           /\ t.index <= Len(t.tweens)
           /\ \A i \in 1 .. Len(t.tweens) :
                  /\ i <= t.index => Finished(t.tweens[i])
                  /\ i > t.index + 1 => t.tweens[i] = Fresh(t.tweens[i])
    /\ \A i \in 1 .. Len(t.tweens) : CursorOrdered(t.tweens[i])

\* C24: every Sequence of the tree has index <= children.length, finished
\* children below the cursor and construction-state children above it; a call
\* on a Sequence moves the cursor forward only and leaves the children below the
\* cursor untouched; an advance call visits the children from the cursor child
\* on in strictly increasing order, one return each, Done for every child the
\* cursor passes and Running for the child it stops at.
C24_SequenceCursor ==
    /\ CursorOrdered(tween)
    /\ (pre.kind = "Sequence" /\ IsCall) =>
           /\ pre.index <= tween.index
           /\ \A i \in 1 .. pre.index : tween.tweens[i] = pre.tweens[i]
    /\ (pre.kind = "Sequence" /\ op = "advance") =>
           /\ Len(ChildReturns) =
                  (tween.index - pre.index) + (IF progress.kind = "Done" THEN 0 ELSE 1)
           /\ \A k \in 1 .. Len(ChildReturns) :
                  /\ ChildReturns[k].path = <<pre.index + k>>
                  /\ ChildReturns[k].res.kind = "Done" <=> pre.index + k <= tween.index

C24_Witness ==
    /\ tween.kind = "Sequence" /\ Len(tween.tweens) = 2
    /\ op = "advance" /\ dt > 0
    /\ pre.index = 1 /\ tween.index = 1
    /\ pre.tweens[1].elapsed > 0
    /\ Len(ChildReturns) = 1
    /\ ChildReturns[1].path = <<2>>
    /\ tween.tweens[2] # pre.tweens[2]

\* ------------------------------------------------- the surplus of Parallel
\* C25: a Parallel over finite children returns Done from an advance exactly
\* when the cumulative input has reached the largest child total duration, and
\* the first Done carries the cumulative input minus that duration, also when
\* other children finished in earlier calls.
C25_ParallelFirstDoneSurplus ==
    (tween.kind = "Parallel" /\ Finite(tween) /\ op = "advance") =>
        /\ progress.kind = "Done" <=> total >= TotalDuration(tween)
        /\ FirstReach(TotalDuration(tween)) =>
               progress = Done(total - TotalDuration(tween))

C25_Witness ==
    /\ tween.kind = "Parallel" /\ Finite(tween) /\ op = "advance"
    /\ Len(tween.tweens) = 2
    /\ calls >= 2
    /\ Finished(pre.tweens[1]) /\ ~Finished(pre.tweens[2])
    /\ pre.tweens[2] # Fresh(pre.tweens[2])
    /\ TotalDuration(tween.tweens[1]) > 0
    /\ FirstReach(TotalDuration(tween))
    /\ progress.kind = "Done" /\ progress.surplus > 0
    /\ progress.surplus < dt

\* ------------------------------------------------------ bounds of a surplus
\* C26: every Done a call returns carries 0 <= surplus <= the input of the
\* call: the Done of the root, for advance and for skip, and the Done of every
\* node advanced during an advance, against the duration that node was given.
C26_SurplusWithinInput ==
    /\ (IsCall /\ progress.kind = "Done") =>
           0 <= progress.surplus /\ progress.surplus <= dt
    /\ \A k \in 1 .. Len(log) :
           /\ 0 <= log[k].dt /\ log[k].dt <= dt
           /\ log[k].res.kind = "Done" =>
                  0 <= log[k].res.surplus /\ log[k].res.surplus <= log[k].dt

C26_Witness ==
    /\ op = "advance" /\ calls >= 2
    /\ progress.kind = "Done" /\ 0 < progress.surplus /\ progress.surplus < dt
    /\ \E k \in 1 .. Len(log) :
           /\ log[k].path # << >>
           /\ log[k].dt < dt
           /\ log[k].res.kind = "Done"
           /\ 0 < log[k].res.surplus /\ log[k].res.surplus < log[k].dt

\* ------------------------------------------------ reset through a Repeat
\* for every Repeat of the node: whenever its child, as it is now, returns
\* Done from an advance or a skip, resetting it gives the child as constructed;
\* and a finite Repeat that has completed its iterations holds such a child
RECURSIVE RepeatResetsRestore(_)
RepeatResetsRestore(t) ==
    /\ t.kind = "Repeat" =>
           /\ \A duration \in Inputs :
                  LET a == Advance(t.tweens[1], NoContext, duration)
                      s == Skip(t.tweens[1], duration)
                  IN /\ a.res.kind = "Done" => Reset(a.tw) = Fresh(t.tweens[1])
                     /\ s.res.kind = "Done" => Reset(s.tw) = Fresh(t.tweens[1])
           /\ (~t.times.inf /\ t.count >= t.times.n) =>
                  t.tweens[1] = Fresh(t.tweens[1])
    /\ \A i \in 1 .. Len(t.tweens) : RepeatResetsRestore(t.tweens[i])

\* C27: in every state reachable by advance and skip, the reset a Repeat
\* applies to a child that returned Done leaves every node of the child's
\* subtree with elapsed = 0, count = 0 and index = 0.
C27_RepeatResetRestoresChild == RepeatResetsRestore(tween)

C27_Witness ==
    /\ tween.kind = "Repeat" /\ tween.times = N(2)
    /\ op = "advance"
    /\ tween.tweens[1].kind = "Sequence" /\ Len(tween.tweens[1].tweens) = 2
    /\ pre.count = 1 /\ tween.count = 2
    /\ pre.tweens[1].index = 1
    /\ pre.tweens[1].tweens[1].elapsed > 0
    /\ progress.kind = "Done"
    /\ tween.tweens[1] = Fresh(tween.tweens[1])

\* ---------------------------------------------------------- tick splitting
\* the node holds a Repeat(Infinite) over a child that completes in no time
RECURSIVE HasZeroLoop(_)
HasZeroLoop(t) ==
    \/ /\ t.kind = "Repeat" /\ t.times = Infinite
       /\ Finite(t.tweens[1]) /\ TotalDuration(t.tweens[1]) = 0
    \/ \E i \in 1 .. Len(t.tweens) : HasZeroLoop(t.tweens[i])

\* C28: from every reachable state of a tree without a Repeat(Infinite) over a
\* zero-duration child, advance(a) followed by advance(b) leaves the same
\* tree (every elapsed, count and index) as one advance(a + b).
C28_TickSplitting ==
    ~HasZeroLoop(tween) =>
        \A a \in Inputs : \A b \in Inputs :
            a + b \in Inputs =>
                Advance(Advance(tween, NoContext, a).tw, NoContext, b).tw
                    = Advance(tween, NoContext, a + b).tw

C28_Witness ==
    /\ ~HasZeroLoop(tween)
    /\ calls = 2 /\ op = "advance"
    /\ dt > 0 /\ total - dt > 0 /\ total \in Inputs
    /\ tween.kind = "Repeat" /\ tween.times = Infinite
    /\ tween.tweens[1].kind = "Sequence"
    /\ pre # Fresh(pre)
    /\ tween.count > pre.count
    /\ tween = Advance(Fresh(tween), NoContext, total).tw
    /\ tween # Fresh(tween)

====
